---- MODULE Spec2Model ----
(***************************************************************************)
(* GreenProof API (src/main.py, src/schemas.py): impact actions are stored *)
(* in the "impactaction" collection, attestations in the "proof"           *)
(* collection.  attest_action is three storage round trips (find_one,      *)
(* insert_one, update_one) with the derivation between the first two; the  *)
(* handlers of concurrent requests interleave at those round trips.        *)
(*                                                                         *)
(* Conventions: Optional[str] is a sequence of length 0 (None) or 1;       *)
(* a quantity is a number of tenths (125 is 12.5); a timestamp is a tick   *)
(* of the clock; an ObjectId is a positive integer and an id string is a   *)
(* pair <<n, spelling>>: bson's ObjectId(s) reads the 24 hex digits of s   *)
(* in either letter case, str(oid) writes them in lower case, and n = 0    *)
(* stands for a string that is no ObjectId at all.  sha256 is an ideal     *)
(* (collision-free) digest.  The database handle is configured (the        *)
(* db is None branch of attest_action, a 500, is not modelled).            *)
(***************************************************************************)
EXTENDS Integers, Sequences, FiniteSets, TLC

VARIABLES
    actions,    \* collection "impactaction": ObjectId -> document
    proofs,     \* collection "proof": documents in insertion order (_id = index)
    clock,      \* datetime.now(timezone.utc); it advances after each creation
    pc,         \* per request slot: position inside attest_action
    req,        \* per request slot: action_id of the path and the CreateProofRequest body
    raw,        \* per request slot: the document find_one returned
    loc,        \* per request slot: phash, tx_id, now, proof_doc of the handler
    resp,       \* per request slot: the last response of attest_action
    out,        \* the last response of create_action
    calls,      \* attest requests received so far
    hist        \* history (not program state): submitted[a], the attested flag
                \* action a was created with; updated[a], an attest has updated a;
                \* cut[a], an attest of a was cut short after its insert;
                \* latest[p], no update of p's action came after p's last call's;
                \* fresh[p], no attest of p's action began after p's last call ended

vars == <<actions, proofs, clock, pc, req, raw, loc, resp, out, calls, hist>>

-----------------------------------------------------------------------------
(* Bounds *)

MaxActions == 2

MaxCalls == 3

Procs == {1, 2}

-----------------------------------------------------------------------------
(* Values *)

None == <<>>

Some(s) == <<s>>

Categories ==
    {"renewables", "recycling", "reforestation", "transport", "water",
     "buildings", "circular-economy", "other"}

ListLimit == 100

Unparseable == <<0, "lower">>

ObjectId(s) == s[1]

ObjectIdValid(s) == s[1] # 0

Str(oid) == <<oid, "lower">>

Upper(s) == <<s[1], "upper">>

Content(q, cat, desc) ==
    [actor |-> "Test User", title |-> "Solar generation", description |-> desc,
     category |-> cat, quantity |-> q, unit |-> "kWh", location |-> None,
     evidence_url |-> None]

WithAttestation(c, att, ph, tx) ==
    [actor |-> c.actor, title |-> c.title, description |-> c.description,
     category |-> c.category, quantity |-> c.quantity, unit |-> c.unit,
     location |-> c.location, evidence_url |-> c.evidence_url,
     attested |-> att, proof_hash |-> ph, tx_id |-> tx]

Payloads ==
    { WithAttestation(Content(125, "renewables", None), FALSE, None, None),
      WithAttestation(Content(126, "renewables", None), FALSE, None, None),
      WithAttestation(Content(125, "renewables", None), TRUE, Some("abc"), Some("def")),
      WithAttestation(Content(0, "renewables", None), FALSE, None, None),
      WithAttestation(Content(125, "bogus", None), FALSE, None, None) }

Body(salt, signer_address, signature, chain_id) ==
    [salt |-> salt, signer_address |-> signer_address, signature |-> signature,
     chain_id |-> chain_id]

NoSalt == Body(None, Some("0xDeaD"), Some("0x"), Some(1337))

Requests ==
    { <<Unparseable, NoSalt>>,
      <<Str(1), Body(Some(""), None, None, None)>>,
      <<Upper(Str(1)), Body(Some("s1"), None, None, None)>> }
    \cup { <<Str(oid), NoSalt>> : oid \in 1..MaxActions }

-----------------------------------------------------------------------------
(* schemas.py *)

ValidateCategoryOnly(p) == p.category \in Categories

Validate(p) ==
    /\ p.category \in Categories
    /\ p.quantity > 0

ImpactAction(p) == p

-----------------------------------------------------------------------------
(* action_proof_hash *)

Quote(s) == "\"" \o s \o "\""

JsonOpt(o) == IF o = None THEN "null" ELSE Quote(o[1])

JsonFloat(q) == ToString(q \div 10) \o "." \o ToString(q % 10)

ModelDumpExclude(a) ==
    [actor |-> a.actor, category |-> a.category, description |-> a.description,
     evidence_url |-> a.evidence_url, location |-> a.location,
     quantity |-> a.quantity, title |-> a.title, unit |-> a.unit]

JsonDumps(d) ==
    "{\"actor\":" \o Quote(d.actor)
    \o ",\"category\":" \o Quote(d.category)
    \o ",\"description\":" \o JsonOpt(d.description)
    \o ",\"evidence_url\":" \o JsonOpt(d.evidence_url)
    \o ",\"location\":" \o JsonOpt(d.location)
    \o ",\"quantity\":" \o JsonFloat(d.quantity)
    \o ",\"title\":" \o Quote(d.title)
    \o ",\"unit\":" \o Quote(d.unit) \o "}"

SaltOrEmpty(salt) == IF salt = None THEN "" ELSE salt[1]

Sha256Hex(s) == "sha256(" \o s \o ")"

Prefix32(h) == h \o "[:32]"

HashWithAttested(action, salt) ==
    Sha256Hex(JsonDumps(ModelDumpExclude(action))
              \o (IF action.attested THEN "true" ELSE "false") \o SaltOrEmpty(salt))

action_proof_hash(action, salt) ==
    Sha256Hex(JsonDumps(ModelDumpExclude(action)) \o SaltOrEmpty(salt))

TxId(phash) == Prefix32(Sha256Hex(phash \o "|tx"))

-----------------------------------------------------------------------------
(* database.py (not in src/): create_document, get_documents *)

create_document(doc, now) ==
    [actor |-> doc.actor, title |-> doc.title, description |-> doc.description,
     category |-> doc.category, quantity |-> doc.quantity, unit |-> doc.unit,
     location |-> doc.location, evidence_url |-> doc.evidence_url,
     attested |-> doc.attested, proof_hash |-> doc.proof_hash, tx_id |-> doc.tx_id,
     created_at |-> now, updated_at |-> now]

get_documents(coll, limit) ==
    SubSeq(coll, 1, IF Len(coll) < limit THEN Len(coll) ELSE limit)

-----------------------------------------------------------------------------
(* Initial state: both collections empty, no request in flight *)

NoResponse == [status |-> 0, body |-> <<>>]

NoRequest == [action_id |-> Unparseable, body |-> <<>>]

Init ==
    /\ actions = <<>>
    /\ proofs = <<>>
    /\ clock = 1
    /\ pc = [p \in Procs |-> "idle"]
    /\ req = [p \in Procs |-> NoRequest]
    /\ raw = [p \in Procs |-> <<>>]
    /\ loc = [p \in Procs |-> <<>>]
    /\ resp = [p \in Procs |-> NoResponse]
    /\ out = NoResponse
    /\ calls = 0
    /\ hist = [submitted |-> [i \in 1..MaxActions |-> FALSE],
               updated |-> [i \in 1..MaxActions |-> FALSE],
               cut |-> [i \in 1..MaxActions |-> FALSE],
               latest |-> [p \in Procs |-> FALSE],
               fresh |-> [p \in Procs |-> FALSE]]

-----------------------------------------------------------------------------
(* POST /actions *)

create_action(payload) ==
    IF Validate(payload)
    THEN /\ Len(actions) < MaxActions
         /\ actions' = Append(actions, create_document(ImpactAction(payload), clock))
         /\ out' = [status |-> 200, body |-> <<Str(Len(actions) + 1)>>]
         /\ clock' = clock + 1
         /\ hist' = [hist EXCEPT !.submitted[Len(actions) + 1] = payload.attested]
         /\ UNCHANGED <<proofs, pc, req, raw, loc, resp, calls>>
    ELSE /\ out' = [status |-> 422, body |-> <<>>]
         /\ UNCHANGED <<actions, proofs, clock, pc, req, raw, loc, resp, calls, hist>>

(* GET /actions, GET /proofs: the documents read are copies; the handlers  *)
(* rewrite the copies and leave the collections alone                      *)

WithId(doc, oid) == [id |-> Str(oid)] @@ doc

ListActionsResponse ==
    get_documents([i \in 1..Len(actions) |-> WithId(actions[i], i)], ListLimit)

ListProofsResponse ==
    get_documents([i \in 1..Len(proofs) |-> WithId(proofs[i], i)], ListLimit)

list_actions ==
    /\ Len(ListActionsResponse) <= ListLimit
    /\ UNCHANGED vars

list_proofs ==
    /\ Len(ListProofsResponse) <= ListLimit
    /\ UNCHANGED vars

-----------------------------------------------------------------------------
(* POST /actions/{action_id}/attest *)

FindOne(s) == ObjectIdValid(s) /\ ObjectId(s) \in 1..Len(actions)

ActionFromRaw(d) ==
    [actor |-> d.actor, title |-> d.title, description |-> d.description,
     category |-> d.category, quantity |-> d.quantity, unit |-> d.unit,
     location |-> d.location, evidence_url |-> d.evidence_url,
     attested |-> d.attested, proof_hash |-> d.proof_hash, tx_id |-> d.tx_id]

ProofDoc(action_id, body, phash, tx, now) ==
    [action_id |-> action_id, proof_hash |-> phash, tx_id |-> tx,
     network |-> "sim-chain", signer_address |-> body.signer_address,
     signature |-> body.signature, chain_id |-> body.chain_id,
     created_at |-> now, updated_at |-> now]

Derive(action_id, body, doc, now) ==
    LET action == ActionFromRaw(doc)
        phash == action_proof_hash(action, body.salt)
        tx == TxId(phash)
    IN [phash |-> phash, tx_id |-> tx, now |-> now,
        proof_doc |-> ProofDoc(action_id, body, phash, tx, now)]

attest_action_insert_before_find(p, s, body) ==
    /\ pc[p] = "idle"
    /\ \A q \in Procs : q < p => req[q] # NoRequest
    /\ calls < MaxCalls
    /\ calls' = calls + 1
    /\ req' = [req EXCEPT ![p] = [action_id |-> s, body |-> <<body>>]]
    /\ IF FindOne(s)
       THEN /\ raw' = [raw EXCEPT ![p] = <<[_id |-> ObjectId(s), doc |-> actions[ObjectId(s)]]>>]
            /\ loc' = [loc EXCEPT ![p] = <<Derive(s, body, actions[ObjectId(s)], clock)>>]
            /\ pc' = [pc EXCEPT ![p] = "insert"]
            /\ hist' = [hist EXCEPT
                          !.latest[p] = FALSE,
                          !.fresh = [q \in Procs |->
                                       /\ q # p
                                       /\ @[q]
                                       /\ ObjectId(req[q].action_id) # ObjectId(s)]]
            /\ UNCHANGED <<resp, proofs>>
       ELSE /\ proofs' = Append(proofs, ProofDoc(s, body, "", "", clock))
            /\ resp' = [resp EXCEPT ![p] = [status |-> 404, body |-> <<>>]]
            /\ hist' = [hist EXCEPT !.latest[p] = FALSE, !.fresh[p] = FALSE]
            /\ UNCHANGED <<raw, loc, pc>>
    /\ UNCHANGED <<actions, clock, out>>

(* find_one, and what the handler computes before its next round trip.    *)
(* Request slots are taken in order: slot p serves a request only once    *)
(* every lower slot has served one (the slots are interchangeable).       *)
attest_action_find(p, s, body) ==
    /\ pc[p] = "idle"
    /\ \A q \in Procs : q < p => req[q] # NoRequest
    /\ calls < MaxCalls
    /\ calls' = calls + 1
    /\ req' = [req EXCEPT ![p] = [action_id |-> s, body |-> <<body>>]]
    /\ IF FindOne(s)
       THEN /\ raw' = [raw EXCEPT ![p] = <<[_id |-> ObjectId(s), doc |-> actions[ObjectId(s)]]>>]
            /\ loc' = [loc EXCEPT ![p] = <<Derive(s, body, actions[ObjectId(s)], clock)>>]
            /\ pc' = [pc EXCEPT ![p] = "insert"]
            /\ hist' = [hist EXCEPT
                          !.latest[p] = FALSE,
                          !.fresh = [q \in Procs |->
                                       /\ q # p
                                       /\ @[q]
                                       /\ ObjectId(req[q].action_id) # ObjectId(s)]]
            /\ UNCHANGED resp
       ELSE /\ resp' = [resp EXCEPT ![p] = [status |-> 404, body |-> <<>>]]
            /\ hist' = [hist EXCEPT !.latest[p] = FALSE, !.fresh[p] = FALSE]
            /\ UNCHANGED <<raw, loc, pc>>
    /\ UNCHANGED <<actions, proofs, clock, out>>

UpsertOne(coll, doc) ==
    IF \E i \in 1..Len(coll) : ObjectId(coll[i].action_id) = ObjectId(doc.action_id)
    THEN [i \in 1..Len(coll) |->
            IF ObjectId(coll[i].action_id) = ObjectId(doc.action_id) THEN doc ELSE coll[i]]
    ELSE Append(coll, doc)

InsertOne(coll, doc) == Append(coll, doc)

attest_action_insert(p) ==
    /\ pc[p] = "insert"
    /\ proofs' = InsertOne(proofs, loc[p][1].proof_doc)
    /\ pc' = [pc EXCEPT ![p] = "update"]
    /\ UNCHANGED <<actions, clock, req, raw, loc, resp, out, calls, hist>>

SetAttestedAndCreated(doc, phash, tx, now) ==
    [doc EXCEPT !.attested = TRUE, !.proof_hash = Some(phash),
                !.tx_id = Some(tx), !.updated_at = now, !.created_at = now]

SetAttestedSwapped(doc, phash, tx, now) ==
    [doc EXCEPT !.attested = TRUE, !.proof_hash = Some(tx),
                !.tx_id = Some(phash), !.updated_at = now]

SetAttested(doc, phash, tx, now) ==
    [doc EXCEPT !.attested = TRUE, !.proof_hash = Some(phash),
                !.tx_id = Some(tx), !.updated_at = now]

UpdateOneIfUnattested(coll, oid, phash, tx, now) ==
    [i \in 1..Len(coll) |->
        IF i = oid /\ ~coll[i].attested
        THEN [coll[i] EXCEPT !.attested = TRUE, !.proof_hash = Some(phash),
                             !.tx_id = Some(tx), !.updated_at = now]
        ELSE coll[i]]

UpdateOne(coll, oid, phash, tx, now) ==
    [i \in 1..Len(coll) |->
        IF i = oid THEN SetAttested(coll[i], phash, tx, now) ELSE coll[i]]

attest_action_update(p) ==
    /\ pc[p] = "update"
    /\ actions' = UpdateOne(actions, raw[p][1]._id, loc[p][1].phash,
                            loc[p][1].tx_id, loc[p][1].now)
    /\ resp' = [resp EXCEPT ![p] =
                  [status |-> 200,
                   body |-> <<[proof_hash |-> loc[p][1].phash,
                               tx_id |-> loc[p][1].tx_id]>>]]
    /\ pc' = [pc EXCEPT ![p] = "idle"]
    /\ raw' = [raw EXCEPT ![p] = <<>>]
    /\ loc' = [loc EXCEPT ![p] = <<>>]
    /\ hist' = [hist EXCEPT
                  !.updated[raw[p][1]._id] = TRUE,
                  !.latest = [q \in Procs |->
                                q = p \/ (@[q] /\ ObjectId(req[q].action_id) # raw[p][1]._id)],
                  !.fresh[p] = TRUE]
    /\ UNCHANGED <<proofs, clock, req, out, calls>>

(* update_one raises after insert_one has returned: the handler is left, *)
(* the response is a 500                                                 *)
StorageFault(p) ==
    /\ pc[p] = "update"
    /\ resp' = [resp EXCEPT ![p] = [status |-> 500, body |-> <<>>]]
    /\ pc' = [pc EXCEPT ![p] = "idle"]
    /\ raw' = [raw EXCEPT ![p] = <<>>]
    /\ loc' = [loc EXCEPT ![p] = <<>>]
    /\ hist' = [hist EXCEPT !.cut[raw[p][1]._id] = TRUE]
    /\ UNCHANGED <<actions, proofs, clock, req, out, calls>>

-----------------------------------------------------------------------------

Next ==
    \/ \E payload \in Payloads : create_action(payload)
    \/ list_actions
    \/ list_proofs
    \/ \E p \in Procs, r \in Requests : attest_action_find(p, r[1], r[2])
    \/ \E p \in Procs : attest_action_insert(p)
    \/ \E p \in Procs : attest_action_update(p)
    \/ \E p \in Procs : StorageFault(p)

Spec == Init /\ [][Next]_vars

-----------------------------------------------------------------------------
(* Vocabulary of the properties *)

Stored == 1..Len(actions)

Succeeded(p) == pc[p] = "idle" /\ resp[p].status = 200

ActionOf(p) == ObjectId(req[p].action_id)

Returned(p) == resp[p].body[1]

Shows(a, pair) ==
    /\ actions[a].attested
    /\ actions[a].proof_hash = Some(pair.proof_hash)
    /\ actions[a].tx_id = Some(pair.tx_id)

ProofsOf(a) == { i \in 1..Len(proofs) : ObjectId(proofs[i].action_id) = a }

ProofPair(i) == [proof_hash |-> proofs[i].proof_hash, tx_id |-> proofs[i].tx_id]

Newest(S) == CHOOSE i \in S : \A j \in S : j <= i

HasProofOfItsPair(a) ==
    \E i \in ProofsOf(a) :
        /\ actions[a].proof_hash = Some(proofs[i].proof_hash)
        /\ actions[a].tx_id = Some(proofs[i].tx_id)

ContentOf(doc) ==
    <<doc.actor, doc.title, doc.description, doc.category, doc.quantity, doc.unit,
      doc.location, doc.evidence_url>>

SameSalt(s, t) == s = t \/ (s \in {None, Some("")} /\ t \in {None, Some("")})

-----------------------------------------------------------------------------
(* C1, as claimed: after an attest call has succeeded, and as long as no   *)
(* further attest of that action has begun, the action shows attested =    *)
(* true and the pair the call returned, also when the call's steps         *)
(* interleaved with another attest of the same action.                     *)
C1_AsClaimed ==
    \A p \in Procs :
        (Succeeded(p) /\ hist.fresh[p]) => Shows(ActionOf(p), Returned(p))

(* C1, amended: after an attest call has succeeded the action shows        *)
(* attested = true, and its proof_hash and tx_id are the pair the call     *)
(* returned for as long as no other attest's update of that action has     *)
(* landed after this call's (re-attestations with another salt included).  *)
C1_ShowsReturnedPairUntilOverwritten ==
    \A p \in Procs :
        Succeeded(p) =>
            /\ actions[ActionOf(p)].attested
            /\ hist.latest[p] => Shows(ActionOf(p), Returned(p))

C1_Witness ==
    \E p \in Procs :
        /\ Succeeded(p)
        /\ hist.latest[p]
        /\ \E i \in ProofsOf(ActionOf(p)) : ProofPair(i) # Returned(p)

(* C2, as claimed: for every stored action, attested is true iff           *)
(* proof_hash and tx_id are both set and are the pair of a derivation made *)
(* for that action (of one of its Proof records).                          *)
C2_AttestedIffDerivedPair ==
    \A a \in Stored :
        actions[a].attested <=>
            /\ actions[a].proof_hash # None
            /\ actions[a].tx_id # None
            /\ HasProofOfItsPair(a)

(* C3: an attest request whose action_id names no stored action (or is no  *)
(* id at all) is answered 404 and writes nothing: both collections are the *)
(* same before and after; a request that names a stored action goes on.    *)
C3_NotFoundWritesNothing ==
    [][ calls' = calls + 1 =>
          IF pc' = pc
          THEN /\ \E p \in Procs :
                    /\ pc[p] = "idle"
                    /\ resp'[p].status = 404
                    /\ ~FindOne(req'[p].action_id)
               /\ actions' = actions
               /\ proofs' = proofs
          ELSE \E p \in Procs :
                    /\ pc[p] = "idle"
                    /\ pc'[p] = "insert"
                    /\ FindOne(req'[p].action_id) ]_vars

C3_Witness ==
    /\ Len(actions) = 1
    /\ Len(proofs) = 1
    /\ resp[1].status = 404 /\ req[1].action_id = Unparseable
    /\ resp[2].status = 404 /\ req[2].action_id = Str(2)

C6_SameSaltSamePair ==
    \A p, q \in Procs :
        ( /\ Succeeded(p) /\ Succeeded(q)
          /\ ActionOf(p) = ActionOf(q)
          /\ SameSalt(req[p].body[1].salt, req[q].body[1].salt) )
        => Returned(p) = Returned(q)

C6_Witness ==
    /\ Succeeded(1) /\ Succeeded(2)
    /\ ActionOf(1) = ActionOf(2)
    /\ {req[1].body[1].salt, req[2].body[1].salt} = {None, Some("")}
    /\ ProofsOf(ActionOf(1)) = {1, 2, 3}
    /\ ProofPair(1) = ProofPair(3)
    /\ ProofPair(2) # ProofPair(1)
    /\ actions[ActionOf(1)].updated_at # actions[ActionOf(1)].created_at

(* C7: a create request with quantity <= 0 or a category outside the eight *)
(* of the closed set is answered 422 and leaves both collections as they   *)
(* were; every stored action has quantity > 0 and a category of the set.   *)
C7_InvalidCreateRejected ==
    [][ /\ Cardinality(Categories) = 8
        /\ \A payload \in Payloads :
              ( /\ payload.quantity <= 0 \/ payload.category \notin Categories
                /\ create_action(payload) )
              => (out'.status = 422 /\ actions' = actions /\ proofs' = proofs)
        /\ \A a \in 1..Len(actions') :
              actions'[a].quantity > 0 /\ actions'[a].category \in Categories ]_vars

C7_Witness ==
    /\ out.status = 422
    /\ Len(actions) = 1
    /\ Len(proofs) = 1

(* C8: two attest calls of the same action that have both succeeded left   *)
(* two Proof records of that action, one with each call's pair (and no     *)
(* call leaves more than one); exactly one of the two calls made the later *)
(* update, and the action carries that call's pair, whichever call         *)
(* inserted its Proof record first.                                        *)
C8_TwoProofsLastWriterWins ==
    /\ Len(proofs) <= calls
    /\ \A p, q \in Procs :
          (p # q /\ Succeeded(p) /\ Succeeded(q) /\ ActionOf(p) = ActionOf(q)) =>
              /\ \E i, j \in ProofsOf(ActionOf(p)) :
                    /\ i # j
                    /\ ProofPair(i) = Returned(p)
                    /\ ProofPair(j) = Returned(q)
              /\ hist.latest[p] # hist.latest[q]
              /\ hist.latest[p] => Shows(ActionOf(p), Returned(p))
              /\ hist.latest[q] => Shows(ActionOf(q), Returned(q))

C8_Witness ==
    \E p, q \in Procs :
        /\ p # q /\ Succeeded(p) /\ Succeeded(q) /\ ActionOf(p) = ActionOf(q)
        /\ Returned(p) # Returned(q)
        /\ Cardinality(ProofsOf(ActionOf(p))) = 2
        /\ hist.latest[p]
        /\ Shows(ActionOf(p), Returned(p))
        /\ ProofPair(Newest(ProofsOf(ActionOf(p)))) = Returned(q)

(* C9: an action that was created unattested and is now attested has a     *)
(* Proof record that refers to it and carries the action's proof_hash and  *)
(* tx_id, also after an attest was cut short between its insert and its    *)
(* update (which leaves a Proof record and an action not marked attested). *)
C9_AttestedHasMatchingProof ==
    \A a \in Stored :
        (~hist.submitted[a] /\ actions[a].attested) => HasProofOfItsPair(a)

C9_Witness ==
    /\ \E p \in Procs : resp[p].status = 500 /\ pc[p] = "idle"
    /\ \E a, b \in Stored :
          /\ ~hist.submitted[a] /\ ~actions[a].attested /\ ProofsOf(a) # {}
          /\ ~hist.submitted[b] /\ actions[b].attested

(* C10: a step changes a stored action only as the update of a successful  *)
(* attest of that action, and then only attested, proof_hash, tx_id and    *)
(* updated_at; the content fields, the identifier and created_at stay, the *)
(* other actions stay, no action is removed, and attested never goes from  *)
(* true to false.                                                          *)
C10_AttestFrame ==
    [][ /\ Len(actions') >= Len(actions)
        /\ \A a \in Stored :
              /\ ContentOf(actions'[a]) = ContentOf(actions[a])
              /\ actions'[a].created_at = actions[a].created_at
              /\ actions[a].attested => actions'[a].attested
              /\ actions'[a] # actions[a] =>
                    \E p \in Procs :
                        /\ pc[p] = "update" /\ pc'[p] = "idle"
                        /\ resp'[p].status = 200
                        /\ ActionOf(p) = a
                        /\ Shows(a, Returned(p))' ]_vars

C10_Witness ==
    /\ Len(actions) = 2
    /\ actions[1].attested /\ hist.updated[1] /\ ~hist.submitted[1]
    /\ actions[1].updated_at # actions[1].created_at
    /\ ~actions[2].attested /\ ~hist.updated[2]

====
